---- MODULE Spec2Model ----
(***************************************************************************)
(* Model of the Volvo vehicle exporter: the credential lifecycle manager   *)
(* (src/auth.py, class VolvoAuth), the vehicle API client built on it, and *)
(* the skeleton of the main polling loop (src/exporter.py, main and        *)
(* poll_all_metrics).  Spec follows the credential and the client calls    *)
(* request by request; SpecPoll follows the polling pipeline (dynamic      *)
(* series, location enrichment, the loop of main) payload by payload.      *)
(*                                                                         *)
(* A Python dict is a function from a set of string keys to integers       *)
(* ("key in d" is  key \in DOMAIN d).  Tokens are positive integers: the   *)
(* vendor's n-th credential has access token n and refresh token n.        *)
(* Time is an integer number of seconds.                                   *)
(***************************************************************************)
EXTENDS Integers, Sequences, FiniteSets, TLC

VARIABLES
    pc,          \* position of main(): "authenticate", "prompt", "list",
                 \* "status0", "poll", "round_sleep", "exited"
    exitKind,    \* "none", "fatal" (sys.exit(1)), "crash" (uncaught exception)
                 \* or "interrupt" (KeyboardInterrupt in the polling loop)
    stage,       \* position inside the current client call:
                 \* "idle", "refresh", "sleep", "retry"
    ep,          \* index in Endpoints of the endpoint being polled
    file,        \* volvo_token.json
    bak,         \* volvo_token.json.bak
    bearer,      \* session.headers['Authorization'] (0: not set)
    vin,         \* VolvoAPI.vin / VolvoAuth.vin (0: not set)
    now,         \* time.time()
    issued,      \* number of credentials the vendor has issued so far
    call,        \* bookkeeping of the current (or last finished) client call
    max_retries, \* argument of the current (or last) call of safe_refresh
    attempt,     \* loop variable of safe_refresh
    lastRefresh, \* what the last call of refresh_token did
    persisted,   \* content of the last write of the credential file
    voided,      \* refresh tokens replaced by a successful refresh
    saved,       \* arguments of the last completed save_token
    loaded,      \* what the last call of load_token did
    auth,        \* what the interactive step of authenticate() did
    boot,        \* what main() got from authenticate() and get_vehicle_list(),
                 \* and the vin of the vehicle labels it built
    fetched,     \* endpoint keys fetched so far in the current polling round
    roundFailed, \* an endpoint of the current round has failed
    stats_metrics,          \* REGISTRY._stats_metrics
    energy_metrics,         \* REGISTRY._energy_metrics
    last_known_addresses,   \* last_known_addresses[vin] (0: no entry)
    location_children,      \* the address label values for which the three
                            \* location gauges hold a sample
    http_requests_total,            \* HTTP_REQUESTS_TOTAL: samples by labels
    http_request_duration_seconds,  \* HTTP_REQUEST_DURATION_SECONDS:
                                    \* observations by labels
    request,     \* the outbound requests made so far and the last of them
    step         \* what the last endpoint of poll_all_metrics did

\* the state of the credential lifecycle manager and the API client
authVars == <<stage, file, bak, bearer, vin, now, issued, call, max_retries,
              attempt, lastRefresh, persisted, voided, saved, loaded, auth, boot>>

\* the state of the polling pipeline
pollVars == <<fetched, roundFailed, stats_metrics, energy_metrics,
              last_known_addresses, location_children, step>>

\* the request instrumentation.  The two series are written by the wrappers
\* of the requests library only and no step of the program reads them: the
\* specifications of the program's control flow leave them alone, and
\* SpecHttp follows them request by request.
httpVars == <<http_requests_total, http_request_duration_seconds, request>>

vars == <<pc, exitKind, stage, ep, file, bak, bearer, vin, now, issued, call,
          max_retries, attempt, lastRefresh, persisted, voided, saved, loaded,
          auth, boot, fetched, roundFailed, stats_metrics, energy_metrics,
          last_known_addresses, location_children, step, httpVars>>

(***************************************************************************)
(* Bounds of the model.                                                    *)
(***************************************************************************)
MaxNow == 2
MaxTokens == 2
MaxRetriesArg == 3

\* vendor lifetimes (expires_in) offered by the token endpoint: one that the
\* safety margin eats completely and one that leaves one second
Lifetimes == {60, 61}

(***************************************************************************)
(* Program constants.                                                      *)
(***************************************************************************)
TOKEN_EXPIRY_SAFETY_MARGIN_SECONDS == 60
DefaultMaxRetries == 2

Endpoints == <<"status", "odometer", "statistics", "energy", "engine-status",
               "warnings", "tyres", "diagnostics", "location">>

(***************************************************************************)
(* Python dicts and the credential file.                                   *)
(***************************************************************************)
EmptyDict == [k \in {} |-> 0]

Get(d, k, default) == IF k \in DOMAIN d THEN d[k] ELSE default

SetItem(d, key, v) == [k \in DOMAIN d \cup {key} |-> IF k = key THEN v ELSE d[k]]

\* a file is absent, holds text json.loads rejects, or holds a JSON object
NoFile == [st |-> "absent", data |-> EmptyDict]
Garbage == [st |-> "garbage", data |-> EmptyDict]
JsonFile(d) == [st |-> "json", data |-> d]

(***************************************************************************)
(* VolvoAuth.invalidate_token: rename the file to volvo_token.json.bak;    *)
(* nothing happens when there is no file.  The rename is the POSIX one: it *)
(* succeeds and replaces an earlier backup.                                *)
(***************************************************************************)
invalidate_token(f, b) ==
    IF f.st # "absent" THEN [file |-> NoFile, bak |-> f]
                       ELSE [file |-> f, bak |-> b]

(***************************************************************************)
(* VolvoAuth.save_token.  expires_at is computed first (KeyError when the  *)
(* body has no expires_in: nothing is written), the file is written, and   *)
(* only then is access_token read for the session header (KeyError when it *)
(* is missing: the file is already written).                               *)
(***************************************************************************)
ExpiresAtNoMargin(t, e) == t + e

ExpiresAt(t, e) == t + e - TOKEN_EXPIRY_SAFETY_MARGIN_SECONDS

save_token(token_data, t) ==
    IF "expires_in" \notin DOMAIN token_data
    THEN [wrote |-> FALSE, complete |-> FALSE, data |-> token_data]
    ELSE [wrote |-> TRUE,
          complete |-> "access_token" \in DOMAIN token_data,
          data |-> SetItem(token_data, "expires_at",
                           ExpiresAt(t, token_data["expires_in"]))]

(***************************************************************************)
(* VolvoAuth.load_token.                                                   *)
(***************************************************************************)
TokenValidNonStrict(d, t) ==
    "access_token" \in DOMAIN d /\ t <= Get(d, "expires_at", 0)

\* line 92: the stored credential is installed as the session bearer token
TokenValid(d, t) ==
    "access_token" \in DOMAIN d /\ t < Get(d, "expires_at", 0)

LoadReturnsOnlyValid(d, t) == TokenValid(d, t)

\* lines 92-98: load_token returns the stored dict (else None)
LoadReturns(d, t) == TokenValid(d, t) \/ "refresh_token" \in DOMAIN d

load_token(f, t) ==
    IF f.st = "absent"
    THEN [ret |-> "none", install |-> FALSE, invalidate |-> FALSE, data |-> EmptyDict]
    ELSE IF f.st = "garbage"
    THEN [ret |-> "none", install |-> FALSE, invalidate |-> TRUE, data |-> EmptyDict]
    ELSE [ret |-> IF LoadReturns(f.data, t) THEN "token" ELSE "none",
          install |-> TokenValid(f.data, t),
          invalidate |-> FALSE,
          data |-> IF LoadReturns(f.data, t) THEN f.data ELSE EmptyDict]

(***************************************************************************)
(* Responses of the token endpoint.  status 0 stands for a transport-level *)
(* failure (requests raises a RequestException); a 200 response carries a  *)
(* body that is not JSON, JSON that is not an object, or a JSON object     *)
(* with the three fields or with one of them missing; n is the number of   *)
(* the credential the vendor issues.                                       *)
(***************************************************************************)
BodyKeys == {"access_token", "refresh_token", "expires_in"}

TokenBody(has, n, e) == [k \in has |-> IF k = "expires_in" THEN e ELSE n]

HasToken(d) == "access_token" \in DOMAIN d \/ "refresh_token" \in DOMAIN d

BodyShapes == {BodyKeys} \cup {BodyKeys \ {k} : k \in BodyKeys}

TokenResponses(n) ==
    {[status |-> s, json |-> "invalid", body |-> EmptyDict] : s \in {0, 400, 401, 503}}
    \cup {[status |-> 200, json |-> j, body |-> EmptyDict] : j \in {"invalid", "nonobject"}}
    \cup {[status |-> 200, json |-> "object", body |-> TokenBody(has, n, e)] :
             has \in BodyShapes, e \in Lifetimes}

\* the vendor has MaxTokens credentials to give
Available(resp) ==
    (resp.status = 200 /\ resp.json = "object" /\ HasToken(resp.body)) => issued < MaxTokens

Issue(resp) ==
    IF resp.status = 200 /\ resp.json = "object" /\ HasToken(resp.body)
    THEN issued + 1 ELSE issued

(***************************************************************************)
(* VolvoAuth.refresh_token: a single refresh attempt.                      *)
(***************************************************************************)
CanRefreshAnyJson(f) == f.st = "json"

\* lines 117-124: the attempt goes on to the POST only when the file exists,
\* parses, and holds a refresh token
CanRefresh(f) == f.st = "json" /\ "refresh_token" \in DOMAIN f.data

RefreshTokenSentPrevious(d) ==
    IF Get(d, "refresh_token", 0) > 1 THEN d["refresh_token"] - 1
                                      ELSE Get(d, "refresh_token", 0)

\* line 131: the refresh token put in the form of the POST
RefreshTokenSent(d) == Get(d, "refresh_token", 0)

InvalidatingStatusOnly401(s) == s = 401

InvalidatingStatusAnyFailure(s) == s # 200

\* line 148: the statuses whose failure invalidates the stored credential
InvalidatingStatus(s) == s \in {400, 401}

HandlerInvalidatesNever(exc) == FALSE

\* lines 153-165: which of the three exception handlers invalidates
HandlerInvalidates(exc) == exc = "KeyError"

Caught(exc, f, b, br) ==
    LET r == IF HandlerInvalidates(exc) THEN invalidate_token(f, b)
                                        ELSE [file |-> f, bak |-> b]
    IN  [ret |-> "false", file |-> r.file, bak |-> r.bak, bearer |-> br]

\* lines 134-165: what the attempt does with the response of the POST
refresh_response(f, b, br, t, resp) ==
    IF resp.status = 0 THEN Caught("RequestException", f, b, br)
    ELSE IF resp.status = 200 THEN
        IF resp.json = "invalid" THEN Caught("JSONDecodeError", f, b, br)
        ELSE IF resp.json = "nonobject"
        THEN \* save_token subscripts a list, a string or null: a TypeError no
             \* handler of refresh_token catches
             [ret |-> "raised", file |-> f, bak |-> b, bearer |-> br]
        ELSE LET s == save_token(resp.body, t)
                 f1 == IF s.wrote THEN JsonFile(s.data) ELSE f
             IN  IF s.complete
                 THEN [ret |-> "true", file |-> f1, bak |-> b,
                       bearer |-> resp.body["access_token"]]
                 ELSE Caught("KeyError", f1, b, br)
    ELSE LET r == IF InvalidatingStatus(resp.status) THEN invalidate_token(f, b)
                                                     ELSE [file |-> f, bak |-> b]
         IN  [ret |-> "false", file |-> r.file, bak |-> r.bak, bearer |-> br]

(***************************************************************************)
(* Responses of the vehicle API to a GET: status 0 is a transport-level    *)
(* failure, a 200 response carries JSON or not, and the listing names the  *)
(* vehicles.                                                               *)
(***************************************************************************)
VinLists == {<<>>, <<1>>, <<2, 1>>}

\* the payload of a per-vehicle endpoint names the vehicle ('vin') or not
VinFields == {<<>>, <<vin>>}

ApiResponses(kind) ==
    {[status |-> s, json |-> "invalid", vins |-> <<>>] : s \in {0, 200, 401, 500}}
    \cup {[status |-> 200, json |-> "object", vins |-> v] :
             v \in IF kind = "list" THEN VinLists ELSE VinFields}

(***************************************************************************)
(* Bookkeeping.                                                            *)
(***************************************************************************)
NoCall == [kind |-> "none", first |-> -1, gets |-> 0, srCalls |-> 0, attempts |-> 0,
           sleeps |-> 0, sr |-> "none", last |-> -1, result |-> "none",
           sent |-> <<>>]

NoResponse == [status |-> -1, json |-> "invalid", body |-> EmptyDict]

NoRefresh == [done |-> FALSE, posted |-> FALSE, sent |-> 0, resp |-> NoResponse,
              ret |-> "none", before |-> NoFile, bakBefore |-> NoFile]

NoLoad == [done |-> FALSE, t |-> 0, src |-> NoFile, ret |-> "none",
           data |-> EmptyDict, bearer |-> 0]

NoSave == [wrote |-> FALSE, complete |-> FALSE, t |-> 0, e |-> 0, at |-> 0]

\* the record of a save_token that wrote the file
SaveRecord(s, body, t) ==
    [wrote |-> TRUE, complete |-> s.complete, t |-> t, e |-> body["expires_in"],
     at |-> Get(body, "access_token", 0)]

\* the record of the interactive step of authenticate()
NoAuth == [done |-> FALSE, hasState |-> FALSE, codeLen |-> 0, posted |-> FALSE,
           resp |-> NoResponse, ret |-> "none", before |-> NoFile, bearerBefore |-> 0]

\* vinLabel is vehicle_labels['vin'] (-1: not built yet, 0: 'unknown')
NoBoot == [auth |-> "none", list |-> "none", vins |-> <<>>, vinLabel |-> -1]

\* no dynamic series exists: the registry maps a series name to label names
NoMetrics == [m \in {} |-> {}]

\* what an endpoint of a round did: the result of get_vehicle_data, whether
\* the processing raised, and for a dynamic-shape payload its number of
\* fields, whether every field is a structured object of the expected types,
\* the derived names, the series created, the number of Gauge constructions,
\* the series set, and whether labels() was given other label names than the
\* series has; for the location its enrichment: the address the geocoder
\* resolved (-1: none), whether the cache entry was assigned, and the address
\* label the location series were set with (-1: not set); for the energy
\* and the tyres the vendor values read and the samples the gauges were set to
NoStep == [kind |-> "none", outcome |-> "none", raised |-> FALSE, n |-> 0,
           typed |-> FALSE, emptyBefore |-> FALSE, allExisted |-> FALSE,
           derived |-> {}, created |-> {}, creations |-> 0, sets |-> {},
           mismatch |-> FALSE, coords |-> 0, reload |-> "none",
           geocode |-> FALSE, weather |-> FALSE, locationSet |-> FALSE,
           cacheBefore |-> 0, resolved |-> -1, wrote |-> FALSE, address |-> -1,
           reads |-> EmptyDict, tyres |-> EmptyDict, values |-> EmptyDict]

NoRequest == [n |-> 0, method |-> "none", url |-> "none", status_code |-> "none"]

NoSamples == <<>>

\* exporter.py lines 63-75 and 162-229: both request series declared, without
\* samples, the wrappers installed and no request made yet
HttpInit ==
    /\ http_requests_total = NoSamples
    /\ http_request_duration_seconds = NoSamples
    /\ request = NoRequest

\* exporter.py before the first polling round: no dynamic series, no cached
\* address
PollInit ==
    /\ fetched = <<>>
    /\ roundFailed = FALSE
    /\ stats_metrics = NoMetrics
    /\ energy_metrics = NoMetrics
    /\ last_known_addresses = 0
    /\ location_children = {}
    /\ step = NoStep
    /\ HttpInit

(***************************************************************************)
(* Initial state: VolvoAuth has been constructed (no Authorization header, *)
(* no VIN) and main() is about to call authenticate().  The credential     *)
(* file is whatever an earlier run left: nothing, text that does not       *)
(* parse, or credential 1, expired or not, with or without refresh token.  *)
(***************************************************************************)
InitFiles ==
    {NoFile, Garbage}
    \cup {JsonFile([access_token |-> 1, refresh_token |-> 1,
                    expires_in |-> 62, expires_at |-> x]) : x \in {0, 2}}
    \cup {JsonFile([access_token |-> 1, expires_in |-> 62, expires_at |-> x]) :
             x \in {0, 2}}

Init ==
    /\ pc = "authenticate"
    /\ exitKind = "none"
    /\ stage = "idle"
    /\ ep = 1
    /\ file \in InitFiles
    /\ bak = NoFile
    /\ bearer = 0
    /\ vin = 0
    /\ now = 0
    /\ issued = 1
    /\ call = NoCall
    /\ max_retries = DefaultMaxRetries
    /\ attempt = 0
    /\ lastRefresh = NoRefresh
    /\ persisted = file.data
    /\ voided = {}
    /\ saved = NoSave
    /\ loaded = NoLoad
    /\ auth = NoAuth
    /\ boot = NoBoot
    /\ PollInit

(***************************************************************************)
(* How a finished client call continues in main() (lines 683-710) and in   *)
(* poll_all_metrics, whose try/except around every endpoint swallows an    *)
(* exception of get_vehicle_data.                                          *)
(***************************************************************************)
LastVin(vins) == vins[Len(vins)]

\* line 688: api.vin = vins[0]
FirstVin(vins) == vins[1]

\* exporter.py line 370: status.get('vin', 'unknown'), of the payload of the
\* startup status request or of {}
get_vehicle_labels(status) == IF status = <<>> THEN 0 ELSE status[1]

Finish(outcome, vins) ==
    /\ stage' = "idle"
    /\ attempt' = 0
    /\ boot' = IF pc = "list" THEN [boot EXCEPT !.list = outcome, !.vins = vins]
               ELSE IF pc = "status0" /\ outcome # "raised"
               THEN [boot EXCEPT !.vinLabel = get_vehicle_labels(vins)]
               ELSE boot
    /\ IF pc = "list"
       THEN IF outcome = "raised"
            THEN pc' = "exited" /\ exitKind' = "crash" /\ UNCHANGED <<ep, vin>>
            ELSE IF outcome = "empty" \/ vins = <<>>
            THEN pc' = "exited" /\ exitKind' = "fatal" /\ UNCHANGED <<ep, vin>>
            ELSE pc' = "status0" /\ vin' = FirstVin(vins) /\ UNCHANGED <<ep, exitKind>>
       ELSE IF pc = "status0"
       THEN IF outcome = "raised"
            THEN pc' = "exited" /\ exitKind' = "crash" /\ UNCHANGED <<ep, vin>>
            ELSE pc' = "poll" /\ ep' = 1 /\ UNCHANGED <<exitKind, vin>>
       ELSE IF ep < Len(Endpoints)
            THEN ep' = ep + 1 /\ UNCHANGED <<pc, exitKind, vin>>
            ELSE pc' = "round_sleep" /\ UNCHANGED <<ep, exitKind, vin>>

\* lines 254-261 and 302-308: the result of a call from its last response
Outcome(resp) ==
    IF resp.status = 0 THEN "raised"
    ELSE IF resp.status # 200 THEN "empty"
    ELSE IF resp.json = "object" THEN "data" ELSE "raised"

InRangeOneMore(a) == a <= max_retries + 1

\* line 169: a in range(1, max_retries + 1)
InRange(a) == 1 <= a /\ a <= max_retries

RetryAlways(ok) == TRUE

\* lines 249 and 297: the GET is repeated only if safe_refresh() returned True
RetryAfterRefresh(ok) == ok

\* safe_refresh has returned ok to get_vehicle_list / get_vehicle_data
AfterSafeRefresh(c, ok) ==
    IF RetryAfterRefresh(ok)
    THEN /\ stage' = "retry"
         /\ attempt' = 0
         /\ call' = [c EXCEPT !.sr = IF ok THEN "true" ELSE "false"]
         /\ UNCHANGED <<pc, exitKind, ep, vin, boot>>
    ELSE /\ call' = [c EXCEPT !.sr = IF ok THEN "true" ELSE "false",
                              !.result = "empty"]
         /\ Finish("empty", <<>>)

(***************************************************************************)
(* VolvoAuth.authenticate, lines 176-179: load_token() and, when it yields *)
(* a credential, return True; otherwise go on to the interactive step.     *)
(***************************************************************************)
authenticate ==
    /\ pc = "authenticate"
    /\ LET L == load_token(file, now)
           r == IF L.invalidate THEN invalidate_token(file, bak)
                                ELSE [file |-> file, bak |-> bak]
           b == IF L.install THEN file.data["access_token"] ELSE bearer
       IN  /\ file' = r.file
           /\ bak' = r.bak
           /\ bearer' = b
           /\ pc' = IF L.ret = "token" THEN "list" ELSE "prompt"
           /\ loaded' = [done |-> TRUE, t |-> now, src |-> file, ret |-> L.ret,
                         data |-> L.data, bearer |-> b]
           /\ boot' = IF L.ret = "token" THEN [boot EXCEPT !.auth = "true"] ELSE boot
    /\ lastRefresh' = NoRefresh
    /\ UNCHANGED <<exitKind, stage, ep, vin, now, issued, call, max_retries,
                   attempt, persisted, voided, saved, auth>>
    /\ UNCHANGED pollVars
    /\ UNCHANGED httpVars

(***************************************************************************)
(* VolvoAuth.authenticate, lines 195-234: the pasted callback URL is       *)
(* checked for the state token and an authorization code of at least 10    *)
(* characters, and the code is exchanged at the token endpoint.  main()    *)
(* exits with status 1 when authenticate() returns False; an exception     *)
(* (transport failure, unusable body) is caught nowhere.                   *)
(***************************************************************************)
MinCodeLength == 10

CodeLengths == {0, MinCodeLength - 1, MinCodeLength}

CallbackAcceptedAnyState(hasState, codeLen) == codeLen >= MinCodeLength

\* lines 197-208: the callback URL contains the state token, and the code in
\* its query is present (codeLen > 0) and has at least 10 characters
CallbackAccepted(hasState, codeLen) == hasState /\ codeLen >= MinCodeLength

authenticate_interactive ==
    /\ pc = "prompt"
    /\ \E hasState \in BOOLEAN, codeLen \in CodeLengths :
          LET a == [NoAuth EXCEPT !.done = TRUE, !.hasState = hasState,
                                  !.codeLen = codeLen, !.before = file,
                                  !.bearerBefore = bearer]
          IN
          IF ~CallbackAccepted(hasState, codeLen)
          THEN /\ pc' = "exited" /\ exitKind' = "fatal"
               /\ auth' = [a EXCEPT !.ret = "false"]
               /\ UNCHANGED <<file, bearer, issued, persisted, saved>>
          ELSE \E resp \in TokenResponses(issued + 1) :
                  /\ Available(resp)
                  /\ issued' = Issue(resp)
                  /\ IF resp.status = 200 /\ resp.json = "object"
                     THEN LET s == save_token(resp.body, now)
                          IN  /\ file' = IF s.wrote THEN JsonFile(s.data) ELSE file
                              /\ persisted' = IF s.wrote THEN s.data ELSE persisted
                              /\ saved' = IF s.wrote THEN SaveRecord(s, resp.body, now)
                                                     ELSE saved
                              /\ IF s.complete
                                 THEN /\ bearer' = resp.body["access_token"]
                                      /\ pc' = "list" /\ exitKind' = exitKind
                                      /\ auth' = [a EXCEPT !.posted = TRUE,
                                                           !.resp = resp,
                                                           !.ret = "true"]
                                 ELSE /\ bearer' = bearer
                                      /\ pc' = "exited" /\ exitKind' = "crash"
                                      /\ auth' = [a EXCEPT !.posted = TRUE,
                                                           !.resp = resp,
                                                           !.ret = "raised"]
                     ELSE /\ pc' = "exited"
                          /\ exitKind' = IF resp.status \in {0, 200} THEN "crash"
                                                                     ELSE "fatal"
                          /\ auth' = [a EXCEPT !.posted = TRUE, !.resp = resp,
                                               !.ret = IF resp.status \in {0, 200}
                                                       THEN "raised" ELSE "false"]
                          /\ UNCHANGED <<file, bearer, persisted, saved>>
    /\ boot' = [boot EXCEPT !.auth = auth'.ret]
    /\ lastRefresh' = NoRefresh
    /\ loaded' = NoLoad
    /\ UNCHANGED <<stage, ep, bak, vin, now, call, max_retries, attempt, voided>>
    /\ UNCHANGED pollVars
    /\ UNCHANGED httpVars

(***************************************************************************)
(* get_vehicle_list (lines 236-247) and get_vehicle_data (lines 263-295):  *)
(* the first GET.  A 401 starts safe_refresh(); any other response ends    *)
(* the call.                                                               *)
(***************************************************************************)
client_get ==
    /\ pc \in {"list", "status0", "poll"}
    /\ stage = "idle"
    /\ LET kind == IF pc = "list" THEN "list" ELSE "data"
       IN  IF kind = "data" /\ vin = 0
           THEN /\ call' = [NoCall EXCEPT !.kind = kind, !.result = "empty"]
                /\ Finish("empty", <<>>)
                /\ UNCHANGED max_retries
           ELSE \E resp \in ApiResponses(kind) :
                  LET c == [NoCall EXCEPT !.kind = kind, !.first = resp.status,
                                          !.last = resp.status, !.gets = 1,
                                          !.sent = <<bearer>>]
                  IN  IF resp.status = 401
                      THEN \* self.safe_refresh(): max_retries takes its default
                           /\ max_retries' = DefaultMaxRetries
                           /\ IF InRange(1)'
                              THEN /\ stage' = "refresh"
                                   /\ attempt' = 1
                                   /\ call' = [c EXCEPT !.srCalls = 1]
                                   /\ UNCHANGED <<pc, exitKind, ep, vin, boot>>
                              ELSE AfterSafeRefresh([c EXCEPT !.srCalls = 1], FALSE)
                      ELSE /\ call' = [c EXCEPT !.result = Outcome(resp)]
                           /\ Finish(Outcome(resp), resp.vins)
                           /\ UNCHANGED max_retries
    /\ lastRefresh' = NoRefresh
    /\ loaded' = NoLoad
    /\ auth' = NoAuth
    /\ UNCHANGED <<file, bak, bearer, now, issued, persisted, voided, saved>>
    /\ UNCHANGED pollVars
    /\ UNCHANGED httpVars

(***************************************************************************)
(* One iteration of safe_refresh (line 170): a call of refresh_token().    *)
(* True ends safe_refresh at once; an exception no handler catches leaves  *)
(* safe_refresh and the client call.                                       *)
(***************************************************************************)
refresh_token ==
    /\ stage = "refresh"
    /\ IF ~CanRefresh(file)
       THEN /\ lastRefresh' = [done |-> TRUE, posted |-> FALSE, sent |-> 0,
                               resp |-> NoResponse, ret |-> "false",
                               before |-> file, bakBefore |-> bak]
            /\ stage' = "sleep"
            /\ call' = [call EXCEPT !.attempts = @ + 1]
            /\ UNCHANGED <<pc, exitKind, ep, vin, attempt, file, bak, bearer,
                           issued, persisted, voided, saved, boot>>
       ELSE \E resp \in TokenResponses(issued + 1) :
              LET r == refresh_response(file, bak, bearer, now, resp)
                  s == IF resp.status = 200 /\ resp.json = "object"
                       THEN save_token(resp.body, now)
                       ELSE [wrote |-> FALSE, complete |-> FALSE, data |-> EmptyDict]
                  c == [call EXCEPT !.attempts = @ + 1]
              IN  /\ Available(resp)
                  /\ issued' = Issue(resp)
                  /\ file' = r.file
                  /\ bak' = r.bak
                  /\ bearer' = r.bearer
                  /\ persisted' = IF s.wrote THEN s.data ELSE persisted
                  /\ saved' = IF s.wrote THEN SaveRecord(s, resp.body, now) ELSE saved
                  /\ voided' = IF r.ret = "true"
                               THEN voided \cup {Get(file.data, "refresh_token", 0)}
                               ELSE voided
                  /\ lastRefresh' = [done |-> TRUE, posted |-> TRUE,
                                     sent |-> RefreshTokenSent(file.data),
                                     resp |-> resp, ret |-> r.ret,
                                     before |-> file, bakBefore |-> bak]
                  /\ IF r.ret = "true" THEN AfterSafeRefresh(c, TRUE)
                     ELSE IF r.ret = "false"
                     THEN /\ stage' = "sleep"
                          /\ call' = c
                          /\ UNCHANGED <<pc, exitKind, ep, vin, attempt, boot>>
                     ELSE /\ call' = [c EXCEPT !.sr = "raised", !.result = "raised"]
                          /\ Finish("raised", <<>>)
    /\ loaded' = NoLoad
    /\ UNCHANGED <<now, max_retries, auth>>
    /\ UNCHANGED pollVars
    /\ UNCHANGED httpVars

(***************************************************************************)
(* safe_refresh, lines 172-174: after a failed attempt, sleep; then the    *)
(* next iteration, or return False when the range is exhausted.            *)
(***************************************************************************)
safe_refresh_sleep ==
    /\ stage = "sleep"
    /\ LET c == [call EXCEPT !.sleeps = @ + 1]
       IN  IF InRange(attempt + 1)
           THEN /\ attempt' = attempt + 1
                /\ stage' = "refresh"
                /\ call' = c
                /\ UNCHANGED <<pc, exitKind, ep, vin, boot>>
           ELSE AfterSafeRefresh(c, FALSE)
    /\ lastRefresh' = NoRefresh
    /\ loaded' = NoLoad
    /\ UNCHANGED <<file, bak, bearer, now, issued, max_retries, persisted, voided,
                   saved, auth>>
    /\ UNCHANGED pollVars
    /\ UNCHANGED httpVars

(***************************************************************************)
(* get_vehicle_list lines 250-261, get_vehicle_data lines 298-308: the     *)
(* repeated GET and the end of the call.                                   *)
(***************************************************************************)
RetryHeaderStale(first, session) == first

\* lines 250 and 298: headers['Authorization'] is set again from the
\* session's header before the GET is repeated
RetryHeader(first, session) == session

client_retry_get ==
    /\ stage = "retry"
    /\ \E resp \in ApiResponses(call.kind) :
          /\ call' = [call EXCEPT !.gets = @ + 1, !.last = resp.status,
                                  !.result = Outcome(resp),
                                  !.sent = Append(@, RetryHeader(call.sent[1], bearer))]
          /\ Finish(Outcome(resp), resp.vins)
    /\ lastRefresh' = NoRefresh
    /\ loaded' = NoLoad
    /\ UNCHANGED <<file, bak, bearer, now, issued, max_retries, persisted, voided,
                   saved, auth>>
    /\ UNCHANGED pollVars
    /\ UNCHANGED httpVars

(***************************************************************************)
(* main(), line 704: the round is over; sleep and start the next one.      *)
(***************************************************************************)
poll_sleep ==
    /\ pc = "round_sleep"
    /\ pc' = "poll"
    /\ ep' = 1
    /\ lastRefresh' = NoRefresh
    /\ loaded' = NoLoad
    /\ fetched' = <<>>
    /\ roundFailed' = FALSE
    /\ step' = NoStep
    /\ UNCHANGED <<exitKind, stage, file, bak, bearer, vin, now, issued, call,
                   max_retries, attempt, persisted, voided, saved, auth, boot>>
    /\ UNCHANGED <<stats_metrics, energy_metrics, last_known_addresses,
                   location_children>>
    /\ UNCHANGED httpVars

(***************************************************************************)
(* The environment: the process is started again (after an exit, or after  *)
(* being killed), with the files an earlier run left; time passes.         *)
(***************************************************************************)
Restart ==
    /\ pc # "authenticate"
    /\ pc' = "authenticate"
    /\ exitKind' = "none"
    /\ stage' = "idle"
    /\ ep' = 1
    /\ bearer' = 0
    /\ vin' = 0
    /\ call' = NoCall
    /\ attempt' = 0
    /\ lastRefresh' = NoRefresh
    /\ loaded' = NoLoad
    /\ auth' = NoAuth
    /\ boot' = NoBoot
    /\ fetched' = <<>>
    /\ roundFailed' = FALSE
    /\ stats_metrics' = NoMetrics
    /\ energy_metrics' = NoMetrics
    /\ last_known_addresses' = 0
    /\ location_children' = {}
    /\ step' = NoStep
    /\ http_requests_total' = NoSamples
    /\ http_request_duration_seconds' = NoSamples
    /\ request' = NoRequest
    /\ UNCHANGED <<file, bak, now, issued, max_retries, persisted, voided, saved>>

Tick ==
    /\ now < MaxNow
    /\ now' = now + 1
    /\ UNCHANGED <<pc, exitKind, stage, ep, file, bak, bearer, vin, issued, call,
                   max_retries, attempt, lastRefresh, persisted, voided, saved,
                   loaded, auth, boot>>
    /\ UNCHANGED pollVars
    /\ UNCHANGED httpVars

Next ==
    \/ authenticate
    \/ authenticate_interactive
    \/ client_get
    \/ refresh_token
    \/ safe_refresh_sleep
    \/ client_retry_get
    \/ poll_sleep
    \/ Restart
    \/ Tick

Spec == Init /\ [][Next]_vars

(***************************************************************************)
(* safe_refresh(max_retries, delay) for any argument: the program at an    *)
(* endpoint of a polling round, where a first GET has returned 401 and     *)
(* safe_refresh has been entered with max_retries in 0..MaxRetriesArg      *)
(* (with 0 the range is empty and safe_refresh has returned False).        *)
(***************************************************************************)
InitSafeRefresh ==
    /\ pc = "poll"
    /\ exitKind = "none"
    /\ file \in InitFiles
    /\ bak = NoFile
    /\ bearer = 0
    /\ vin = 1
    /\ now = 0
    /\ issued = 1
    /\ max_retries \in 0..MaxRetriesArg
    /\ lastRefresh = NoRefresh
    /\ persisted = file.data
    /\ voided = {}
    /\ saved = NoSave
    /\ loaded = NoLoad
    /\ auth = NoAuth
    /\ boot = [auth |-> "true", list |-> "data", vins |-> <<1>>, vinLabel |-> 1]
    /\ PollInit
    /\ LET c == [NoCall EXCEPT !.kind = "data", !.first = 401, !.last = 401,
                               !.gets = 1, !.srCalls = 1, !.sent = <<0>>]
       IN  IF InRange(1)
           THEN stage = "refresh" /\ attempt = 1 /\ ep = 1 /\ call = c
           ELSE /\ stage = "idle" /\ attempt = 0 /\ ep = 2
                /\ call = [c EXCEPT !.sr = "false", !.result = "empty"]

SpecSafeRefresh == InitSafeRefresh /\ [][Next]_vars

(***************************************************************************)
(* The polling loop of one process, request by request: the state at line  *)
(* 701 with whatever credential file the startup has left, and the steps   *)
(* of the program only.  Every request carries timeout=10 (auth.py lines   *)
(* 138, 245, 251, 293, 299; exporter.py lines 625, 651), so a remote end   *)
(* that hangs shows as a transport failure (status 0) and no step of the   *)
(* single thread waits forever: the program's next step is always taken.   *)
(***************************************************************************)
InitRound ==
    /\ pc = "poll"
    /\ exitKind = "none"
    /\ stage = "idle"
    /\ ep = 1
    /\ file \in InitFiles
    /\ bak = NoFile
    /\ bearer = 0
    /\ vin = 1
    /\ now = 0
    /\ issued = 1
    /\ call = NoCall
    /\ max_retries = DefaultMaxRetries
    /\ attempt = 0
    /\ lastRefresh = NoRefresh
    /\ persisted = file.data
    /\ voided = {}
    /\ saved = NoSave
    /\ loaded = NoLoad
    /\ auth = NoAuth
    /\ boot = [auth |-> "true", list |-> "data", vins |-> <<1>>, vinLabel |-> 1]
    /\ PollInit

NextRound ==
    \/ client_get
    \/ refresh_token
    \/ safe_refresh_sleep
    \/ client_retry_get
    \/ poll_sleep

LiveRound == InitRound /\ [][NextRound]_vars /\ WF_vars(NextRound)

(***************************************************************************)
(* The polling pipeline (exporter.py, poll_all_metrics and the loop of     *)
(* main), with the vehicle API client reduced to the results a call of     *)
(* get_vehicle_data can have: data, an empty dict, or an exception.        *)
(***************************************************************************)
MaxFields == 2

ClientResults == {Outcome(r) : r \in ApiResponses("data")}

LABEL_NAMES == {"vin", "model", "modelYear", "fuelType", "gearbox", "upholstery",
                "batteryCapacityKWH"}

\* prometheus_client: labels(**kwargs) raises ValueError unless the keyword
\* names are the label names the series was created with
LabelsAccepted(labelnames, given) == labelnames = given

(***************************************************************************)
(* Vendor field names.  A key is the sequence of the pieces of its text,   *)
(* cut so that every text the name derivation replaces is a whole piece;   *)
(* a derived series name is a string.                                      *)
(***************************************************************************)
RECURSIVE Join(_)
Join(pieces) == IF pieces = <<>> THEN "" ELSE Head(pieces) \o Join(Tail(pieces))

\* str.replace(old, new)
Replace(key, old, new) == [i \in 1..Len(key) |-> IF key[i] = old THEN new ELSE key[i]]

\* str.lower() of the pieces in use
LowerPiece(t) ==
    CASE t = "Trip" -> "trip"
      [] t = "Range" -> "range"
      [] t = "Charge" -> "charge"
      [] t = "distanceToEmptyBattery" -> "distancetoemptybattery"
      [] OTHER -> t

Lower(key) == [i \in 1..Len(key) |-> LowerPiece(key[i])]

\* line 415
StatsName(key) == "volvo_stats_" \o Join(Lower(Replace(key, " ", "_"))) \o "_value"

\* line 467
EnergyName(key) ==
    "volvo_energy_" \o Join(Lower(Replace(Replace(key, "Status", ""), "Level", "")))
                    \o "_value"

DistanceToEmptyBattery == <<"distanceToEmptyBattery">>

StatsKeys == {<<"trip", " ", "meter">>, <<"Trip", "_", "meter">>,
              DistanceToEmptyBattery}

electricRange == <<"electric", "Range">>

EnergyKeys == {electricRange, <<"electric", "Range", "Status">>,
               <<"battery", "Charge", "Level">>}

\* the value of a field: a number, a dict without 'value', a dict with a
\* 'value' and a string status or none ("object"), or a dict with a 'value'
\* and a null status
StatsShapes == {"number", "dict", "object"}

EnergyShapes == {"dict", "object", "nullstatus"}

\* a JSON object with at most MaxFields fields, in the order of the response
Payloads(keys, shapes) ==
    UNION {{p \in [1..n -> [key : keys, shape : shapes]] :
              \A i, j \in 1..n : i # j => p[i].key # p[j].key} : n \in 0..MaxFields}

HasValue(f) == f.shape \in {"object", "nullstatus"}

\* the fields the loops go on with (lines 412 and 466)
WithValue(payload) == {i \in 1..Len(payload) : HasValue(payload[i])}

\* the loop state: the dict of dynamic series and what the loop has done
LoopStart(reg) == [reg |-> reg, created |-> {}, creations |-> 0, sets |-> {},
                   raised |-> FALSE, mismatch |-> FALSE]

\* lines 420-432, 475-483, 486-495: create the series unless the dict holds
\* the name, then labels(...).set(value)
CreateAndSet(acc, name, given) ==
    LET exists == name \in DOMAIN acc.reg
        reg1 == IF exists THEN acc.reg ELSE SetItem(acc.reg, name, given)
        a == [acc EXCEPT !.reg = reg1,
                         !.created = IF exists THEN @ ELSE @ \cup {name},
                         !.creations = IF exists THEN @ ELSE @ + 1]
    IN  IF LabelsAccepted(reg1[name], given)
        THEN [a EXCEPT !.sets = @ \cup {name}]
        ELSE [a EXCEPT !.raised = TRUE, !.mismatch = TRUE]

\* lines 411-432
RECURSIVE StatsLoop(_, _)
StatsLoop(fields, acc) ==
    IF fields = <<>> \/ acc.raised THEN acc
    ELSE LET f == Head(fields)
         IN  IF ~HasValue(f) THEN StatsLoop(Tail(fields), acc)
             ELSE StatsLoop(Tail(fields),
                            CreateAndSet(acc, StatsName(f.key),
                                         LABEL_NAMES \cup {"unit"}))

\* lines 434-437: the range; 'value' in a number is a TypeError
RangeRaises(payload) ==
    \E i \in 1..Len(payload) :
        payload[i].key = DistanceToEmptyBattery /\ payload[i].shape = "number"

\* lines 473-495: the label names chosen from the vendor key
EnergyLabels(key) ==
    IF key = electricRange THEN LABEL_NAMES \cup {"status", "unit"}
                           ELSE LABEL_NAMES \cup {"status"}

\* lines 465-495; line 469 raises on a status that is no string
RECURSIVE EnergyLoop(_, _)
EnergyLoop(fields, acc) ==
    IF fields = <<>> \/ acc.raised THEN acc
    ELSE LET f == Head(fields)
         IN  IF ~HasValue(f) THEN EnergyLoop(Tail(fields), acc)
             ELSE IF f.shape = "nullstatus" THEN [acc EXCEPT !.raised = TRUE]
             ELSE EnergyLoop(Tail(fields),
                             CreateAndSet(acc, EnergyName(f.key), EnergyLabels(f.key)))

(***************************************************************************)
(* The round and the loop of main(), lines 701-710.  Every endpoint sits   *)
(* in its own try/except Exception; what that lets through reaches the     *)
(* loop, where KeyboardInterrupt breaks, an Exception is logged and        *)
(* followed by a sleep, and SystemExit ends the process.                   *)
(***************************************************************************)
EndpointCatchesNothing(exc) == FALSE

\* "except Exception" around each endpoint
EndpointCatches(exc) == exc = "Exception"

\* lines 705-710
Propagate(exc) ==
    IF exc = "Exception"
    THEN pc' = "round_sleep" /\ UNCHANGED <<ep, exitKind>>
    ELSE /\ pc' = "exited"
         /\ exitKind' = IF exc = "KeyboardInterrupt" THEN "interrupt" ELSE "fatal"
         /\ UNCHANGED ep

\* the endpoint at ep has been fetched and processed, ending with exc
EndStep(failed, exc) ==
    /\ fetched' = Append(fetched, Endpoints[ep])
    /\ roundFailed' = (roundFailed \/ failed)
    /\ IF exc = "none" \/ EndpointCatches(exc)
       THEN IF ep < Len(Endpoints)
            THEN ep' = ep + 1 /\ UNCHANGED <<pc, exitKind>>
            ELSE pc' = "round_sleep" /\ UNCHANGED <<ep, exitKind>>
       ELSE Propagate(exc)

FixedShape == {"status", "odometer", "engine-status", "warnings", "tyres",
               "diagnostics"}

\* lines 383-400, 502-605: a fixed-shape endpoint.  An empty dict sets the
\* series to their defaults; a payload with a field of another type than
\* the lookups expect raises.
poll_fixed ==
    /\ pc = "poll"
    /\ Endpoints[ep] \in FixedShape
    /\ \E outcome \in ClientResults, shaped \in BOOLEAN :
          LET raised == outcome = "raised" \/ (outcome = "data" /\ ~shaped)
          IN  /\ step' = [NoStep EXCEPT !.kind = Endpoints[ep], !.outcome = outcome,
                                        !.raised = raised]
              /\ EndStep(outcome # "data" \/ raised,
                         IF raised THEN "Exception" ELSE "none")
    /\ UNCHANGED <<stats_metrics, energy_metrics, last_known_addresses,
                   location_children>>
    /\ UNCHANGED authVars
    /\ UNCHANGED httpVars

\* lines 403-440
poll_statistics ==
    /\ pc = "poll"
    /\ Endpoints[ep] = "statistics"
    /\ \E outcome \in ClientResults :
       \E payload \in IF outcome = "data" THEN Payloads(StatsKeys, StatsShapes)
                                          ELSE {<<>>} :
          LET acc == IF outcome = "raised" THEN LoopStart(stats_metrics)
                     ELSE StatsLoop(payload, LoopStart(stats_metrics))
              raised == outcome = "raised" \/ acc.raised \/ RangeRaises(payload)
              names == {StatsName(payload[i].key) : i \in WithValue(payload)}
          IN  /\ stats_metrics' = acc.reg
              /\ step' = [NoStep EXCEPT
                            !.kind = "statistics", !.outcome = outcome,
                            !.raised = raised, !.n = Len(payload),
                            !.typed = \A i \in 1..Len(payload) :
                                         payload[i].shape = "object",
                            !.emptyBefore = DOMAIN stats_metrics = {},
                            !.allExisted = names \subseteq DOMAIN stats_metrics,
                            !.derived = names, !.created = acc.created,
                            !.creations = acc.creations, !.sets = acc.sets,
                            !.mismatch = acc.mismatch]
              /\ EndStep(outcome # "data" \/ raised,
                         IF raised THEN "Exception" ELSE "none")
    /\ UNCHANGED <<energy_metrics, last_known_addresses, location_children>>
    /\ UNCHANGED authVars
    /\ UNCHANGED httpVars

\* Python's None: a JSON null, or what .get('value') yields without a value
None == "<None>"

\* str.upper() of the vendor values in use
Upper(status_str) ==
    IF status_str = "low_pressure" THEN "LOW_PRESSURE" ELSE status_str

\* the gauges of the boolean-like states (lines 249-252, 345) and the
\* endpoint whose block sets each ("none": no statement sets it)
StateGauges ==
    [g \in {"volvo_charge_state", "volvo_plug_state", "volvo_power_status",
            "volvo_lock_state", "volvo_window_front_left"} |->
        IF g \in {"volvo_charge_state", "volvo_plug_state", "volvo_power_status"}
        THEN "energy" ELSE "none"]

\* lines 447-457: the fields of the energy payload read into state gauges,
\* in the order of the reads, with the gauge and the designated value of each
StateReads == <<[field |-> "chargingStatus", gauge |-> "volvo_charge_state",
                 designated |-> "CHARGING"],
                [field |-> "chargerConnectionStatus", gauge |-> "volvo_plug_state",
                 designated |-> "CONNECTED"],
                [field |-> "chargerPowerStatus", gauge |-> "volvo_power_status",
                 designated |-> "PROVIDING_POWER"]>>

StateFields == {StateReads[i].field : i \in 1..Len(StateReads)}

\* other values of the vendor's enumerations
OtherReads == [chargingStatus |-> "IDLE", chargerConnectionStatus |-> "DISCONNECTED",
               chargerPowerStatus |-> "NO_POWER_AVAILABLE"]

\* the 'value' of the three fields in a payload: null, the designated values
\* and, in a payload without dynamic fields, the other values
EnergyReads(payload) ==
    {[f \in StateFields |-> None],
     [chargingStatus |-> "CHARGING", chargerConnectionStatus |-> "CONNECTED",
      chargerPowerStatus |-> "PROVIDING_POWER"]}
    \cup (IF payload = <<>> THEN {OtherReads} ELSE {})

\* an empty dict: every .get('value', '') yields ''
AbsentReads == [f \in StateFields |-> ""]

\* lines 448, 452, 456
StateCoercion(value, designated) ==
    IF Upper(value) = designated THEN 1 ELSE 0

\* lines 447-457: the reads in order; None has no .upper(), which ends them
ReadsDone(reads) ==
    LET bad == {i \in 1..Len(StateReads) : reads[StateReads[i].field] = None}
    IN  IF bad = {} THEN Len(StateReads)
        ELSE (CHOOSE i \in bad : \A j \in bad : i <= j) - 1

StateValues(reads) ==
    [g \in {StateReads[i].gauge : i \in 1..ReadsDone(reads)} |->
        LET r == CHOOSE r \in {StateReads[i] : i \in 1..Len(StateReads)} : r.gauge = g
        IN  StateCoercion(reads[r.field], r.designated)]

\* lines 444-499.  The fixed reads (lines 447-460) raise at a 'value' that
\* is null; the loop follows them.
poll_energy ==
    /\ pc = "poll"
    /\ Endpoints[ep] = "energy"
    /\ \E outcome \in ClientResults :
       \E payload \in IF outcome = "data" THEN Payloads(EnergyKeys, EnergyShapes)
                                          ELSE {<<>>} :
       \E reads \in IF outcome = "data" THEN EnergyReads(payload)
                                        ELSE {AbsentReads} :
          LET fixedReadsOK == ReadsDone(reads) = Len(StateReads)
              acc == IF outcome = "raised" \/ ~fixedReadsOK
                     THEN LoopStart(energy_metrics)
                     ELSE EnergyLoop(payload, LoopStart(energy_metrics))
              raised == outcome = "raised" \/ ~fixedReadsOK \/ acc.raised
              names == {EnergyName(payload[i].key) : i \in WithValue(payload)}
          IN  /\ energy_metrics' = acc.reg
              /\ step' = [NoStep EXCEPT
                            !.kind = "energy", !.outcome = outcome,
                            !.raised = raised, !.n = Len(payload),
                            !.typed = /\ fixedReadsOK
                                      /\ \A i \in 1..Len(payload) :
                                            payload[i].shape = "object",
                            !.emptyBefore = DOMAIN energy_metrics = {},
                            !.allExisted = names \subseteq DOMAIN energy_metrics,
                            !.derived = names, !.created = acc.created,
                            !.creations = acc.creations, !.sets = acc.sets,
                            !.mismatch = acc.mismatch,
                            !.reads = IF outcome = "raised" THEN EmptyDict
                                                            ELSE reads,
                            !.values = IF outcome = "raised" THEN EmptyDict
                                       ELSE StateValues(reads)]
              /\ EndStep(outcome # "data" \/ raised,
                         IF raised THEN "Exception" ELSE "none")
    /\ UNCHANGED <<stats_metrics, last_known_addresses, location_children>>
    /\ UNCHANGED authVars
    /\ UNCHANGED httpVars

EnoughCoordinatesTwo(n) == n >= 2

\* line 612
EnoughCoordinates(n) == n >= 3

CoordCounts == {0, 1, 2, 3, 4}

\* load_config() (lines 41-52): the dict of config.yaml, None for an empty
\* file, or sys.exit(1) when the file is missing or does not parse
ConfigReloads == {"ok", "empty", "exit"}

\* an address is 0 ('unknown', also the reading of an empty cache) or 1
Addresses == {0, 1}

\* the reverse-geocoding answer: no usable answer (an error status, an
\* exception, no features) or the formatted address of the first feature
GeocodeAnswers ==
    {[kind |-> "failed", addr |-> 0]}
    \cup {[kind |-> "address", addr |-> a] : a \in Addresses}

AddressChangedAlways(new_address, address) == TRUE

\* line 631
AddressChanged(new_address, address) == new_address # address

\* lines 613-671: the enrichment of a location with enough coordinates.  The
\* gauges keep every child labels() has made: no child is ever removed.
Enrich(s0) ==
    \E reload \in ConfigReloads :
       IF reload = "exit"
       THEN /\ step' = [s0 EXCEPT !.reload = reload, !.raised = TRUE]
            /\ EndStep(TRUE, "SystemExit")
            /\ UNCHANGED <<last_known_addresses, location_children>>
       ELSE IF reload = "empty"
       THEN \* config.get on None: an AttributeError
            /\ step' = [s0 EXCEPT !.reload = reload, !.raised = TRUE]
            /\ EndStep(TRUE, "Exception")
            /\ UNCHANGED <<last_known_addresses, location_children>>
       ELSE \E hasGeoKey \in BOOLEAN, hasWeatherKey \in BOOLEAN :
            \E geo \in IF hasGeoKey THEN GeocodeAnswers
                                    ELSE {[kind |-> "failed", addr |-> 0]} :
               LET cached == last_known_addresses
                   changed == /\ geo.kind = "address"
                              /\ AddressChanged(geo.addr, cached)
                   address == IF changed THEN geo.addr ELSE cached
               IN  /\ last_known_addresses' = IF changed THEN address
                                                         ELSE last_known_addresses
                   /\ location_children' = location_children \cup {address}
                   /\ step' = [s0 EXCEPT !.reload = reload,
                                         !.geocode = hasGeoKey,
                                         !.weather = hasWeatherKey,
                                         !.locationSet = TRUE,
                                         !.resolved = IF geo.kind = "address"
                                                      THEN geo.addr ELSE -1,
                                         !.wrote = changed,
                                         !.address = address]
                   /\ EndStep(FALSE, "none")

\* lines 608-671.  A payload whose geometry or coordinates have another
\* type than the lookups expect raises (shaped = FALSE); an empty dict has
\* no coordinates.
poll_location ==
    /\ pc = "poll"
    /\ Endpoints[ep] = "location"
    /\ \E outcome \in ClientResults :
          LET s0 == [NoStep EXCEPT !.kind = "location", !.outcome = outcome,
                                   !.cacheBefore = last_known_addresses]
          IN
          IF outcome = "raised"
          THEN /\ step' = [s0 EXCEPT !.raised = TRUE]
               /\ EndStep(TRUE, "Exception")
               /\ UNCHANGED <<last_known_addresses, location_children>>
          ELSE \E shaped \in IF outcome = "data" THEN BOOLEAN ELSE {TRUE} :
               IF ~shaped
               THEN /\ step' = [s0 EXCEPT !.raised = TRUE]
                    /\ EndStep(TRUE, "Exception")
                    /\ UNCHANGED <<last_known_addresses, location_children>>
               ELSE \E n \in IF outcome = "data" THEN CoordCounts ELSE {0} :
                    IF ~EnoughCoordinates(n)
                    THEN /\ step' = [s0 EXCEPT !.coords = n]
                         /\ EndStep(outcome # "data", "none")
                         /\ UNCHANGED <<last_known_addresses, location_children>>
                    ELSE Enrich([s0 EXCEPT !.coords = n])
    /\ UNCHANGED <<stats_metrics, energy_metrics>>
    /\ UNCHANGED authVars
    /\ UNCHANGED httpVars

\* a KeyboardInterrupt during a round or during the sleep, lines 705-707
interrupt ==
    /\ pc \in {"poll", "round_sleep"}
    /\ Propagate("KeyboardInterrupt")
    /\ UNCHANGED pollVars
    /\ UNCHANGED authVars
    /\ UNCHANGED httpVars

\* main() at line 701: authenticated with credential 1, the first listed
\* vehicle selected, the series declared, the first round about to start
InitPoll ==
    /\ pc = "poll"
    /\ exitKind = "none"
    /\ stage = "idle"
    /\ ep = 1
    /\ file = JsonFile([access_token |-> 1, refresh_token |-> 1,
                        expires_in |-> 62, expires_at |-> 2])
    /\ bak = NoFile
    /\ bearer = 1
    /\ vin = 1
    /\ now = 0
    /\ issued = 1
    /\ call = NoCall
    /\ max_retries = DefaultMaxRetries
    /\ attempt = 0
    /\ lastRefresh = NoRefresh
    /\ persisted = file.data
    /\ voided = {}
    /\ saved = NoSave
    /\ loaded = NoLoad
    /\ auth = NoAuth
    /\ boot = [auth |-> "true", list |-> "data", vins |-> <<1>>, vinLabel |-> 1]
    /\ PollInit

NextPoll ==
    \/ poll_fixed
    \/ poll_statistics
    \/ poll_energy
    \/ poll_location
    \/ poll_sleep
    \/ interrupt

SpecPoll == InitPoll /\ [][NextPoll]_vars

(***************************************************************************)
(* The tyres endpoint with its payload in detail, lines 549-578 (SpecPoll  *)
(* takes it as one of the fixed-shape endpoints, by the result of the      *)
(* fetch and by whether the payload has the expected types).  SpecTyres    *)
(* starts where a round reaches the endpoint and ends after it.            *)
(***************************************************************************)
Tyres == {"frontLeft", "frontRight", "rearLeft", "rearRight"}

\* the 'value' of a tyre: None (the tyre is absent, has no 'value', or has a
\* null one), the empty string, the five statuses of the
\* vendor, one of them in lower case, and a status the map does not hold
TyreStatuses == {None, "", "NO_WARNING", "VERY_LOW_PRESSURE", "LOW_PRESSURE",
                 "HIGH_PRESSURE", "UNSPECIFIED", "low_pressure", "FLAT"}

status_map_swapped(status_str) ==
    CASE status_str = "NO_WARNING" -> 0
      [] status_str = "VERY_LOW_PRESSURE" -> 2
      [] status_str = "LOW_PRESSURE" -> 1
      [] status_str = "HIGH_PRESSURE" -> 3
      [] status_str = "UNSPECIFIED" -> 0
      [] OTHER -> 0

\* lines 554-561: status_map.get(status_str, 0.0)
status_map(status_str) ==
    CASE status_str = "NO_WARNING" -> 0
      [] status_str = "VERY_LOW_PRESSURE" -> 1
      [] status_str = "LOW_PRESSURE" -> 2
      [] status_str = "HIGH_PRESSURE" -> 3
      [] status_str = "UNSPECIFIED" -> 0
      [] OTHER -> 0

\* lines 552-561
tyre_status_to_float(status_str) ==
    status_map(IF status_str \in {None, ""} THEN "UNSPECIFIED"
                                            ELSE Upper(status_str))

\* lines 549-578.  An empty dict reads as None for every tyre; a tyre that
\* is no dict, or a 'value' that is neither a string nor null, raises
\* (shaped = FALSE).
poll_tyres ==
    /\ pc = "poll"
    /\ Endpoints[ep] = "tyres"
    /\ \E outcome \in ClientResults :
       \E shaped \in IF outcome = "data" THEN BOOLEAN ELSE {TRUE} :
       \E tyres \in IF outcome = "data" /\ shaped
                    THEN [Tyres -> TyreStatuses]
                    ELSE {[t \in Tyres |-> None]} :
          LET raised == outcome = "raised" \/ ~shaped
          IN  /\ step' = [NoStep EXCEPT
                            !.kind = "tyres", !.outcome = outcome,
                            !.raised = raised, !.typed = shaped,
                            !.tyres = IF raised THEN EmptyDict ELSE tyres,
                            !.values = IF raised THEN EmptyDict
                                       ELSE [t \in Tyres |->
                                               tyre_status_to_float(tyres[t])]]
              /\ EndStep(outcome # "data" \/ raised,
                         IF raised THEN "Exception" ELSE "none")
    /\ UNCHANGED <<stats_metrics, energy_metrics, last_known_addresses,
                   location_children>>
    /\ UNCHANGED authVars
    /\ UNCHANGED httpVars

\* a first round has reached the tyres: the six endpoints before them have
\* returned payloads without dynamic fields and were processed without failure
InitTyres ==
    /\ pc = "poll"
    /\ exitKind = "none"
    /\ stage = "idle"
    /\ ep = 7
    /\ file = JsonFile([access_token |-> 1, refresh_token |-> 1,
                        expires_in |-> 62, expires_at |-> 2])
    /\ bak = NoFile
    /\ bearer = 1
    /\ vin = 1
    /\ now = 0
    /\ issued = 1
    /\ call = NoCall
    /\ max_retries = DefaultMaxRetries
    /\ attempt = 0
    /\ lastRefresh = NoRefresh
    /\ persisted = file.data
    /\ voided = {}
    /\ saved = NoSave
    /\ loaded = NoLoad
    /\ auth = NoAuth
    /\ boot = [auth |-> "true", list |-> "data", vins |-> <<1>>, vinLabel |-> 1]
    /\ fetched = SubSeq(Endpoints, 1, 6)
    /\ roundFailed = FALSE
    /\ stats_metrics = NoMetrics
    /\ energy_metrics = NoMetrics
    /\ last_known_addresses = 0
    /\ location_children = {}
    /\ step = [NoStep EXCEPT !.kind = "warnings", !.outcome = "data"]
    /\ HttpInit

NextTyres == poll_tyres

SpecTyres == InitTyres /\ [][NextTyres]_vars

(***************************************************************************)
(* The request instrumentation (exporter.py lines 63-229).  A URL is its   *)
(* host, the segments of its path and whether it carries a query string;   *)
(* the URLs are those the program requests: the token endpoint, the        *)
(* vehicle list, three per-vehicle endpoints, the geocoder and the weather *)
(* service.  None of them holds a UUID or a long numeric segment, so of    *)
(* sanitize_endpoint the first substitution and the dropping of the query  *)
(* are modelled.                                                           *)
(***************************************************************************)
MaxRequests == 3

VIN == "YV1XZK5V1P2123456"

\* auth.py line 27
TOKEN_URL == [host |-> "volvoid.eu.volvocars.com",
              path |-> <<"as", "token.oauth2">>, query |-> FALSE]

\* auth.py lines 237 and 269-280
ClientUrls ==
    {[host |-> "api.volvocars.com", path |-> p, query |-> FALSE] :
        p \in {<<"connected-vehicle", "v2", "vehicles">>,
               <<"connected-vehicle", "v2", "vehicles", VIN>>,
               <<"connected-vehicle", "v2", "vehicles", VIN, "odometer">>,
               <<"energy", "v2", "vehicles", VIN, "state">>}}

\* exporter.py lines 623 and 649
EnrichUrls ==
    {[host |-> "api.geoapify.com", path |-> <<"v1", "geocode", "reverse">>,
      query |-> TRUE],
     [host |-> "api.openweathermap.org", path |-> <<"data", "2.5", "weather">>,
      query |-> TRUE]}

\* a response with its status, or 0: the request raised a RequestException
HttpAnswers == {200, 401, 0}

\* line 84: a path segment of 17 characters of the VIN alphabet
IsVin(segment) == segment = VIN

\* line 84: the replacement '/<VIN>\1' is not a raw string, so it ends in
\* the character of code 1 and not in the text of group 1
VinPlaceholder == "<VIN>\\x01"

\* lines 79-95
sanitize_endpoint(url) ==
    LET hits == {i \in 1..Len(url.path) : IsVin(url.path[i])}
        path == IF hits = {} THEN url.path
                ELSE LET i == CHOOSE j \in hits : \A k \in hits : j <= k
                     IN Append(SubSeq(url.path, 1, i - 1), VinPlaceholder)
    IN [host |-> url.host, path |-> path]

\* lines 122 and 132, 192 and 202
StatusCode(answer) == IF answer = 0 THEN "error" ELSE ToString(answer)

Labels(method, url, answer) ==
    [method |-> method, endpoint |-> sanitize_endpoint(url),
     status_code |-> StatusCode(answer)]

\* .labels(...).inc() and .labels(...).observe(...)
Sample(series, labels) ==
    IF labels \in DOMAIN series
    THEN [series EXCEPT ![labels] = @ + 1]
    ELSE series @@ (labels :> 1)

\* lines 209-219: the counter is incremented; the observation of the
\* duration is commented out
SessionTotal(total, method, url, answer) == Sample(total, Labels(method, url, answer))

SessionDuration(duration, method, url, answer) == duration

\* lines 139-149: the same, around the call of the wrapped function, which
\* goes through requests.api.request to Session.request (line 229: patched)
WrapperTotal(total, method, url, answer) ==
    Sample(SessionTotal(total, method, url, answer), Labels(method, url, answer))

WrapperDuration(duration, method, url, answer) ==
    SessionDuration(duration, method, url, answer)

Requested(method, url, answer) ==
    [n |-> request.n + 1, method |-> method, url |-> url,
     status_code |-> StatusCode(answer)]

\* lines 183-227: session.get / session.post of the API client
tracked_session_request ==
    /\ request.n < MaxRequests
    /\ \E answer \in HttpAnswers :
       \E r \in {<<"POST", TOKEN_URL>>} \cup {<<"GET", u>> : u \in ClientUrls} :
          /\ http_requests_total' =
                 SessionTotal(http_requests_total, r[1], r[2], answer)
          /\ http_request_duration_seconds' =
                 SessionDuration(http_request_duration_seconds, r[1], r[2], answer)
          /\ request' = Requested(r[1], r[2], answer)
    /\ UNCHANGED <<pc, exitKind, ep>>
    /\ UNCHANGED authVars
    /\ UNCHANGED pollVars

\* lines 102-159 and 170: requests.get of the enrichment step
track_http_request ==
    /\ request.n < MaxRequests
    /\ \E answer \in HttpAnswers :
       \E url \in EnrichUrls :
          /\ http_requests_total' =
                 WrapperTotal(http_requests_total, "GET", url, answer)
          /\ http_request_duration_seconds' =
                 WrapperDuration(http_request_duration_seconds, "GET", url, answer)
          /\ request' = Requested("GET", url, answer)
    /\ UNCHANGED <<pc, exitKind, ep>>
    /\ UNCHANGED authVars
    /\ UNCHANGED pollVars

NextHttp ==
    \/ tracked_session_request
    \/ track_http_request

SpecHttp == Init /\ [][NextHttp]_vars

(***************************************************************************)
(* Properties.                                                             *)
(*                                                                         *)
(* lastRefresh.done holds exactly in the states that follow a call of      *)
(* refresh_token() before the program takes its next step, loaded.done in  *)
(* the states that follow load_token(); call describes the client call in  *)
(* progress and, once call.result is set, the call that has just ended.    *)
(***************************************************************************)
DataCallEnded == call.kind = "data" /\ call.result # "none"

\* C1 as stated: a get_vehicle_data call whose first GET returned 401 makes
\* exactly one refresh and issues exactly one retried GET, and a 401 on the
\* retried GET ends the call with an empty result.
C1_Original ==
    (DataCallEnded /\ call.first = 401) =>
        /\ call.srCalls = 1
        /\ call.gets = 2
        /\ (call.last = 401 => call.result = "empty")

\* C1, amended: a get_vehicle_data call whose first GET returned 401 calls
\* safe_refresh exactly once (at most max_retries single attempts) and issues
\* at most one retried GET, which it issues exactly when safe_refresh
\* returned True; when safe_refresh fails the call ends empty after one GET,
\* and a 401 on the retried GET ends the call empty without another refresh.
C1_Theorem ==
    (call.kind = "data" /\ call.first = 401) =>
        /\ call.srCalls = 1
        /\ call.gets <= 2
        /\ call.attempts <= 2
        /\ (call.gets = 2 => call.sr = "true")
        /\ (call.result # "none" =>
              /\ (call.sr = "true" <=> call.gets = 2)
              /\ (call.sr = "false" => call.result = "empty")
              /\ (call.gets = 2 /\ call.last = 401 => call.result = "empty"))

C1_Witness ==
    /\ DataCallEnded
    /\ call.first = 401
    /\ call.gets = 2
    /\ call.last = 401
    /\ call.srCalls = 1
    /\ call.result = "empty"

Transient(resp) ==
    \/ resp.status \in {0, 503}
    \/ resp.status = 200 /\ resp.json = "invalid"

MissingField(resp) ==
    /\ resp.status = 200
    /\ resp.json = "object"
    /\ ("access_token" \notin DOMAIN resp.body \/ "expires_in" \notin DOMAIN resp.body)

C5_Theorem ==
    [][(stage = "refresh" /\ lastRefresh'.posted) =>
          /\ file = JsonFile(persisted)
          /\ "refresh_token" \in DOMAIN persisted
          /\ lastRefresh'.sent = persisted["refresh_token"]
          /\ lastRefresh'.sent \notin voided]_vars

C5_Witness ==
    /\ lastRefresh.done
    /\ lastRefresh.posted
    /\ voided # {}
    /\ lastRefresh.sent \notin voided
    /\ lastRefresh.sent = lastRefresh.before.data["refresh_token"]

\* C6: after every refresh attempt that returns success the persisted
\* credential contains a refresh token, so that a later attempt is not
\* rejected for lack of one.
C6_Claim ==
    (lastRefresh.done /\ lastRefresh.ret = "true") =>
        /\ file.st = "json"
        /\ "refresh_token" \in DOMAIN file.data
        /\ CanRefresh(file)

\* load_token() has just read the file that the last save_token() wrote,
\* and that save_token() ran to its end
LoadedTheSaved ==
    /\ loaded.done
    /\ saved.wrote
    /\ saved.complete
    /\ loaded.src = JsonFile(persisted)

\* C7: a credential saved at time T with lifetime expires_in = E is persisted
\* with expires_at = T + E - 60, and load_token installs it as the session
\* bearer token iff the time of the load is strictly less than expires_at.
C7_Theorem ==
    /\ saved.wrote =>
          /\ "expires_at" \in DOMAIN persisted
          /\ persisted["expires_at"] = saved.t + saved.e - 60
    /\ LoadedTheSaved =>
          /\ loaded.bearer = saved.at <=> loaded.t < saved.t + saved.e - 60
          /\ loaded.bearer # saved.at => loaded.bearer = 0

C7_Witness ==
    /\ LoadedTheSaved
    /\ saved.e = 61
    /\ loaded.t = saved.t + 1
    /\ persisted["expires_at"] = loaded.t
    /\ loaded.bearer = 0

Variant == 2 * (max_retries - attempt) + (IF stage = "refresh" THEN 1 ELSE 0)

InSafeRefresh == stage \in {"refresh", "sleep"}

C9_Bounds ==
    /\ call.attempts <= max_retries
    /\ InSafeRefresh => /\ 1 <= attempt /\ attempt <= max_retries
                        /\ Variant >= 0
                        /\ call.sr = "none"
                        /\ ENABLED (refresh_token \/ safe_refresh_sleep)
    /\ (lastRefresh.done /\ lastRefresh.ret = "true") =>
          /\ call.sr = "true"
          /\ ~InSafeRefresh
    /\ call.sr = "true" => call.sleeps = call.attempts - 1
    /\ call.sr = "false" => /\ call.attempts = max_retries
                            /\ call.sleeps = max_retries

C9_Progress ==
    /\ (InSafeRefresh /\ InSafeRefresh') =>
          \/ Variant' < Variant /\ max_retries' = max_retries
          \/ UNCHANGED <<stage, attempt, call, max_retries>>
    /\ call.sr \in {"true", "false"} =>
          \/ call'.attempts = call.attempts
          \/ call'.sr = "none" /\ call'.attempts = 0

\* C9: safe_refresh(max_retries, delay) terminates (every step inside it is
\* enabled and lowers a non-negative variant), makes at most max_retries
\* attempts, returns True at the first attempt that succeeds without a
\* further attempt, and returns False only after exactly max_retries
\* attempts have failed.
C9_Theorem == [] C9_Bounds /\ [][C9_Progress]_vars

C9_Witness ==
    /\ max_retries = MaxRetriesArg
    /\ call.sr = "true"
    /\ call.attempts = max_retries
    /\ call.sleeps = max_retries - 1
    /\ stage = "retry"

NothingToRefreshWith(f) ==
    \/ f.st = "absent"
    \/ f.st = "json" /\ "refresh_token" \notin DOMAIN f.data

\* C10: a refresh attempt made when no credential file exists, or when the
\* stored credential has no refresh token, returns failure without a request
\* to the token endpoint and leaves the credential file and its backup as
\* they were.
C10_Theorem ==
    (lastRefresh.done /\ NothingToRefreshWith(lastRefresh.before)) =>
        /\ ~lastRefresh.posted
        /\ lastRefresh.ret = "false"
        /\ file = lastRefresh.before
        /\ bak = lastRefresh.bakBefore

C10_Witness ==
    /\ lastRefresh.done
    /\ lastRefresh.before.st = "json"
    /\ "refresh_token" \notin DOMAIN lastRefresh.before.data
    /\ ~lastRefresh.posted
    /\ file = lastRefresh.before

StoredUnexpired(f, t) ==
    /\ f.st = "json"
    /\ "access_token" \in DOMAIN f.data
    /\ t < Get(f.data, "expires_at", 0)

StoredRefreshable(f) == f.st = "json" /\ "refresh_token" \in DOMAIN f.data

C11_State ==
    /\ loaded.done =>
          /\ pc \in {"list", "prompt"}
          /\ pc = "prompt" <=> /\ ~StoredUnexpired(loaded.src, loaded.t)
                               /\ ~StoredRefreshable(loaded.src)
          /\ StoredUnexpired(loaded.src, loaded.t) =>
                bearer = loaded.src.data["access_token"]
          /\ pc = "list" => /\ boot.auth = "true"
                            /\ auth = NoAuth
                            /\ file = loaded.src
    /\ pc = "prompt" => loaded.done
    /\ auth.done =>
          \/ auth.before.st = "absent"
          \/ /\ auth.before.st = "json"
             /\ ~StoredUnexpired(auth.before, now)
             /\ ~StoredRefreshable(auth.before)

C11_Step ==
    (pc = "authenticate" /\ pc' = "list") =>
        UNCHANGED <<issued, file, bak, persisted, saved, auth>>

\* C11: authenticate() with a stored unexpired credential returns success at
\* once with the session bearer token set to the stored access token, and
\* with a stored credential that is expired but holds a refresh token it
\* returns success as well, in both cases without the interactive step,
\* without a request to the token endpoint and without touching the file;
\* the interactive step is entered exactly when load_token() found no file,
\* an unparseable file, or an expired credential without refresh token.
C11_Theorem == [] C11_State /\ [][C11_Step]_vars

C11_Witness ==
    /\ loaded.done
    /\ StoredUnexpired(loaded.src, loaded.t)
    /\ loaded.t > 0
    /\ pc = "list"
    /\ bearer = loaded.src.data["access_token"]
    /\ auth = NoAuth

\* C12: when the pasted callback URL lacks the state token, or its code is
\* missing or shorter than 10 characters, authenticate() returns False
\* without the token-exchange POST and without writing a credential: the
\* file and the session bearer token stay as they were and main() exits.
C12_Theorem ==
    (auth.done /\ (~auth.hasState \/ auth.codeLen < 10)) =>
        /\ ~auth.posted
        /\ auth.ret = "false"
        /\ boot.auth = "false"
        /\ file = auth.before
        /\ bearer = auth.bearerBefore
        /\ pc = "exited"
        /\ exitKind = "fatal"

C12_Witness ==
    /\ auth.done
    /\ auth.hasState
    /\ auth.codeLen = 9
    /\ ~auth.posted
    /\ auth.ret = "false"
    /\ pc = "exited"

\* C13: in the authorization-code exchange a credential is persisted and
\* authenticate() returns success iff the token endpoint answers HTTP 200;
\* on any other status authenticate() fails and neither the credential file
\* nor the session bearer token is changed.  (A transport failure, status 0
\* here, is no answer of the endpoint and is left out.)
C13_Claim ==
    (auth.done /\ auth.posted /\ auth.resp.status # 0) =>
        /\ auth.resp.status = 200 <=>
              /\ auth.ret = "true"
              /\ saved.wrote
              /\ file = JsonFile(persisted)
              /\ pc = "list"
        /\ auth.resp.status # 200 =>
              /\ auth.ret = "false"
              /\ file = auth.before
              /\ bearer = auth.bearerBefore

\* C16: the first per-vehicle request, the metric series and the polling
\* rounds come only after authenticate() returned True and the listing
\* returned a non-empty list, and the VIN in use is the first one listed;
\* authenticate() returning False, or an empty listing, ends the process
\* with sys.exit(1).
C16_Theorem ==
    /\ (pc \in {"status0", "poll", "round_sleep"} \/ call.kind = "data" \/ vin # 0) =>
          /\ boot.auth = "true"
          /\ boot.list = "data"
          /\ boot.vins # <<>>
          /\ vin = boot.vins[1]
    /\ pc = "list" => boot.auth = "true" /\ boot.list = "none" /\ vin = 0
    /\ boot.list # "none" => boot.auth = "true"
    /\ boot.auth = "false" => pc = "exited" /\ exitKind = "fatal"
    /\ (boot.list = "empty" \/ (boot.list = "data" /\ boot.vins = <<>>)) =>
          pc = "exited" /\ exitKind = "fatal" /\ vin = 0

C16_Witness ==
    /\ pc = "poll"
    /\ ep = 3
    /\ boot.auth = "true"
    /\ boot.vins = <<2, 1>>
    /\ vin = 2
    /\ call.kind = "data"
    /\ call.gets = 1

\* C14: in every polling round the nine endpoints are fetched once each in
\* the fixed order, whatever earlier endpoints of the round raised or
\* returned an empty result: the round reaches its sleep only with all nine
\* fetched, and what has been fetched is always a prefix of the fixed order.
C14_Theorem ==
    /\ fetched = SubSeq(Endpoints, 1, Len(fetched))
    /\ pc = "poll" => Len(fetched) = ep - 1
    /\ pc = "round_sleep" => fetched = Endpoints
    /\ step.kind # "none" => step.kind = fetched[Len(fetched)]

C14_Witness ==
    /\ pc = "round_sleep"
    /\ fetched = Endpoints
    /\ roundFailed
    /\ step.kind = "location"
    /\ step.outcome = "data"
    /\ step.locationSet

\* C15: once the polling loop has started, no failure during a round ends
\* the process; the only exit from the loop is an interrupt.
C15_Claim ==
    /\ pc \in {"poll", "round_sleep", "exited"}
    /\ pc = "exited" => exitKind = "interrupt"

\* C17: a statistics payload of N distinct field names, each a structured
\* object with a value, creates exactly N distinct series (here in a
\* registry without dynamic series; every field name gets a series of its own).
C17_Claim ==
    (step.kind = "statistics" /\ step.outcome = "data" /\ step.typed) =>
        /\ Cardinality(step.derived) = step.n
        /\ step.emptyBefore =>
              /\ Cardinality(step.created) = step.n
              /\ Cardinality(DOMAIN stats_metrics) = step.n

\* C18: a dynamic series name is created at most once and reused: a
\* statistics or energy payload whose derived names all exist creates no
\* series and sets each of them.
C18_Claim ==
    /\ step.creations = Cardinality(step.created)
    /\ step.allExisted => step.created = {}
    /\ (step.kind \in {"statistics", "energy"} /\ step.outcome = "data"
          /\ step.typed /\ step.allExisted) =>
          step.sets = step.derived

\* C19: every labels() call on a dynamic series passes the label names the
\* series was created with, so that every field with a value is set on its
\* series, in any order of the fields.
C19_Claim ==
    (step.kind \in {"statistics", "energy"} /\ step.outcome = "data" /\ step.typed) =>
        /\ ~step.mismatch
        /\ step.sets = step.derived

\* C20: a round whose location has fewer than three coordinates sets no
\* location series, reloads no configuration, issues neither the geocoding
\* nor the weather request, and leaves the address cache as it was.
C20_Theorem ==
    (step.kind = "location" /\ step.coords < 3) =>
        /\ ~step.locationSet
        /\ ~step.geocode
        /\ ~step.weather
        /\ step.reload = "none"
        /\ last_known_addresses = step.cacheBefore
        /\ exitKind # "fatal"

C20_Witness ==
    /\ step.kind = "location"
    /\ step.outcome = "data"
    /\ ~step.raised
    /\ step.coords = 2
    /\ step.cacheBefore = 1
    /\ last_known_addresses = 1
    /\ pc = "round_sleep"

\* the location step that has just ended set the location series
LocationSet == step.kind = "location" /\ step.locationSet

C21_State ==
    LocationSet =>
        /\ step.wrote <=> (step.resolved # -1 /\ step.resolved # step.cacheBefore)
        /\ last_known_addresses = IF step.wrote THEN step.resolved
                                                ELSE step.cacheBefore
        /\ step.address = last_known_addresses
        /\ step.address \in location_children
        /\ step.resolved = -1 => step.address = step.cacheBefore
        /\ step.resolved = step.cacheBefore => step.address = step.cacheBefore

C21_Step ==
    last_known_addresses' # last_known_addresses =>
        /\ pc = "poll"
        /\ Endpoints[ep] = "location"
        /\ step'.locationSet
        /\ step'.resolved \notin {-1, last_known_addresses}
        /\ last_known_addresses' = step'.resolved

\* C21: the address cache is assigned only by a location step whose
\* geocoding resolved an address that differs from the cached one; a round
\* that resolves the cached address (as the second of two rounds resolving
\* the same address does) leaves the cache as it was and sets the location
\* series with that same address label; a failed or empty lookup leaves the
\* cache as it was and the series are set with the cached address.
C21_Theorem == [] C21_State /\ [][C21_Step]_vars

C21_Witness ==
    /\ LocationSet
    /\ step.cacheBefore = 1
    /\ step.resolved = 1
    /\ ~step.wrote
    /\ step.address = 1
    /\ last_known_addresses = 1

\* C22: the number of address label values for which the location series
\* hold a sample stays below the number of distinct addresses resolved over
\* time: the series never hold a sample for every address of the universe.
C22_Claim == Cardinality(location_children) < Cardinality(Addresses)

\* C23: a tyres payload of the expected types does not fail the endpoint and
\* sets each of the four tyre gauges to a value of the scale 0..3: to 2 for
\* the status LOW_PRESSURE (in any case of the letters), to 0 for a status
\* that is absent, null, empty or unrecognized; an empty result of the fetch
\* sets the four gauges to 0.
C23_Theorem ==
    (step.kind = "tyres" /\ step.outcome # "raised" /\ step.typed) =>
        /\ ~step.raised
        /\ pc = "poll"
        /\ ep = 8
        /\ DOMAIN step.values = Tyres
        /\ \A t \in Tyres :
              /\ step.values[t] \in 0..3
              /\ step.tyres[t] \in {"LOW_PRESSURE", "low_pressure"} =>
                    step.values[t] = 2
              /\ step.tyres[t] \in {None, "", "FLAT"} => step.values[t] = 0
              /\ step.tyres[t] \notin {None, ""} =>
                    step.values[t] = status_map(Upper(step.tyres[t]))
        /\ step.outcome = "empty" => \A t \in Tyres : step.values[t] = 0

C23_Witness ==
    /\ step.kind = "tyres"
    /\ step.outcome = "data"
    /\ ~step.raised
    /\ step.tyres["frontLeft"] = "LOW_PRESSURE"
    /\ step.values["frontLeft"] = 2
    /\ step.tyres["frontRight"] = None
    /\ step.values["frontRight"] = 0
    /\ step.tyres["rearLeft"] = "FLAT"
    /\ step.values["rearLeft"] = 0
    /\ step.tyres["rearRight"] = "HIGH_PRESSURE"
    /\ step.values["rearRight"] = 3

\* C24: a round sets the gauge of each boolean-like state (door/window,
\* charging, plug, lock, power-providing): every such gauge is set by the
\* block of an endpoint the round has fetched, and the energy endpoint sets
\* its three to 1 when the vendor value is the designated string and to 0
\* for every other string.
C24_Claim ==
    /\ (step.kind = "energy" /\ step.outcome # "raised"
          /\ \A f \in StateFields : step.reads[f] # None) =>
          \A i \in 1..Len(StateReads) :
             /\ StateReads[i].gauge \in DOMAIN step.values
             /\ step.values[StateReads[i].gauge] =
                   IF step.reads[StateReads[i].field] = StateReads[i].designated
                   THEN 1 ELSE 0
    /\ pc = "round_sleep" =>
          \A g \in DOMAIN StateGauges :
             \E i \in 1..Len(fetched) : fetched[i] = StateGauges[g]

C25_Bounds ==
    /\ pc \in {"poll", "round_sleep"}
    /\ exitKind = "none"
    /\ call.gets <= 2
    /\ call.srCalls <= 1
    /\ call.attempts <= max_retries
    /\ max_retries = DefaultMaxRetries
    /\ call.gets = 2 => call.first = 401
    /\ call.attempts > 0 => call.first = 401
    /\ (call.result # "none" /\ call.last = 0) => call.result = "raised"

RequestLabels ==
    [method |-> request.method, endpoint |-> sanitize_endpoint(request.url),
     status_code |-> request.status_code]

\* C26: every outbound request, answered or failed in transport, has a
\* sample in the request counter and an observation in the duration series
\* under its method, its sanitized endpoint and its status code.
C26_Claim ==
    request.n > 0 =>
        /\ RequestLabels \in DOMAIN http_requests_total
        /\ RequestLabels \in DOMAIN http_request_duration_seconds

\* C27: when a refresh attempt or a load invalidates the stored credential
\* (the file was there before the operation and is gone after it), the
\* backup file holds the content the credential file had before the
\* operation began.
C27_Claim ==
    /\ (lastRefresh.done /\ lastRefresh.before # NoFile /\ file = NoFile) =>
           bak = lastRefresh.before
    /\ (loaded.done /\ loaded.src # NoFile /\ file = NoFile) =>
           bak = loaded.src

\* C28: a credential file whose content does not parse when load_token or
\* a refresh attempt reads it is renamed aside by that operation, which
\* reports that there is no usable credential.
C28_Claim ==
    /\ (loaded.done /\ loaded.src = Garbage) =>
           /\ file = NoFile
           /\ bak = Garbage
           /\ loaded.ret = "none"
    /\ (lastRefresh.done /\ lastRefresh.before = Garbage) =>
           /\ file = NoFile
           /\ bak = Garbage
           /\ lastRefresh.ret = "false"

\* a step of the process (not the start of a new one)
SameProcess == pc' # "authenticate"

AuthorizationStep == pc = "prompt" /\ SameProcess /\ pc' # "prompt"

RefreshStep == ~lastRefresh.done /\ lastRefresh'.done

LoadStep == ~loaded.done /\ loaded'.done

\* the attempt was classified as permanent: answered 400 or 401, or answered
\* with an object that lacks an expected field
PermanentRefresh(r) ==
    /\ r.posted
    /\ \/ r.resp.status \in {400, 401}
       \/ /\ r.resp.status = 200
          /\ r.resp.json = "object"
          /\ {"access_token", "expires_in"} \ DOMAIN r.resp.body # {}

CredentialUnchanged == file' = file /\ bak' = bak /\ bearer' = bearer

\* Authenticated is entered only by a successful exchange, a successful
\* refresh or the load of an unexpired stored credential
C29_Authenticated ==
    (SameProcess /\ bearer' # bearer) =>
        \/ AuthorizationStep /\ auth'.ret = "true"
        \/ RefreshStep /\ lastRefresh'.ret = "true"
        \/ LoadStep /\ loaded'.ret = "token" /\ now < Get(file.data, "expires_at", 0)

\* Invalidated is entered only from a permanent refresh failure or an
\* unparseable stored credential
C29_Invalidated ==
    (file # NoFile /\ file' = NoFile) =>
        \/ RefreshStep /\ PermanentRefresh(lastRefresh')
        \/ file = Garbage

\* a failed authorization and a transient refresh failure leave the state
\* unchanged
C29_Unchanged ==
    /\ (AuthorizationStep /\ auth'.ret # "true") => CredentialUnchanged
    /\ (RefreshStep /\ lastRefresh'.ret # "true" /\ ~PermanentRefresh(lastRefresh')) =>
           CredentialUnchanged

\* Invalidated has no outgoing transition: during polling no further token
\* request, no authorization, the loop goes on and every fetch ends empty
C29_Terminal ==
    (pc \in {"poll", "round_sleep"} /\ file = NoFile /\ SameProcess) =>
        /\ file' = NoFile
        /\ RefreshStep => ~lastRefresh'.posted
        /\ pc' \in {"poll", "round_sleep"}
        /\ (stage' = "idle" /\ call' # call) => call'.result = "empty"

\* C29: the credential lifecycle takes only the transitions of the stated
\* state machine: Authenticated is entered only by a successful exchange, a
\* successful refresh or the load of an unexpired credential; Invalidated
\* only from a permanent refresh failure or an unparseable file; a failed
\* authorization or a transient refresh failure changes nothing; and after
\* an invalidation during polling no token request is issued, the process
\* does not authorize again and every fetch ends in an empty result.
C29_Claim ==
    [][C29_Authenticated /\ C29_Invalidated /\ C29_Unchanged /\ C29_Terminal]_vars

\* C30: safe_refresh sleeps only between consecutive attempts: it has not
\* slept after the attempt that succeeded, and when all max_retries attempts
\* have failed it has slept max_retries - 1 times.
C30_Claim ==
    /\ call.sr = "true" => call.sleeps = call.attempts - 1
    /\ (call.sr = "false" /\ max_retries >= 1) =>
           /\ call.attempts = max_retries
           /\ call.sleeps = max_retries - 1

\* C31: a call of get_vehicle_list or get_vehicle_data issues at most two
\* GETs and calls safe_refresh at most once, and only after a first response
\* 401; the second GET is issued only after safe_refresh has returned True
\* and carries the access token that refresh has persisted, not the one
\* sent with the first GET; when safe_refresh returns False there is no
\* second GET and the call returns an empty result.
C31_Theorem ==
    call.kind \in {"list", "data"} =>
        /\ call.gets <= 2
        /\ call.gets = Len(call.sent)
        /\ call.srCalls <= 1
        /\ call.srCalls = 1 <=> call.first = 401
        /\ call.gets = 2 =>
              /\ call.sr = "true"
              /\ call.sent[2] = saved.at
              /\ call.sent[2] = Get(persisted, "access_token", 0)
              /\ call.sent[2] # call.sent[1]
              /\ call.sent[2] # 0
        /\ (call.sr = "true" /\ call.result # "none") => call.gets = 2
        /\ call.sr = "false" =>
              /\ call.gets = 1
              /\ call.result = "empty"

C31_Witness ==
    /\ call.kind = "list"
    /\ call.first = 401
    /\ call.sr = "true"
    /\ call.gets = 2
    /\ call.sent = <<1, 2>>
    /\ call.result = "data"

\* the value of the sample a series holds under the labels (0: no sample)
Count(series, labels) == IF labels \in DOMAIN series THEN series[labels] ELSE 0

\* C32: every outbound request, of the API client's session or of the
\* enrichment step's requests.get, adds exactly 1 to the request counter
\* under its labels and nothing under other labels.
C32_Claim ==
    [][request'.n = request.n + 1 =>
          /\ Count(http_requests_total', RequestLabels') =
                Count(http_requests_total, RequestLabels') + 1
          /\ \A l \in DOMAIN http_requests_total' \ {RequestLabels'} :
                Count(http_requests_total', l) = Count(http_requests_total, l)]_vars

\* poll_all_metrics(api, vehicle_labels), line 703: the vin every sample of
\* the round is set with, and (lines 619-620) the key of the address cache
SampleVin == boot.vinLabel

CacheKey == boot.vinLabel

C33_State ==
    pc \in {"poll", "round_sleep"} =>
        /\ vin = boot.vins[1]
        /\ SampleVin = vin
        /\ CacheKey = vin

C33_Step ==
    (pc \in {"poll", "round_sleep"} /\ pc' # "authenticate") =>
        /\ vin' = vin
        /\ boot'.vinLabel = boot.vinLabel

\* C33: in every polling round the samples carry the vin label of the
\* vehicle selected at startup, the one of the request URLs, and the address
\* cache is keyed by it; neither the selected vehicle nor the vehicle labels
\* change while the process polls.
C33_Claim == [] C33_State /\ [][C33_Step]_vars

====
